---------------------------- MODULE Spec2Model ----------------------------
(***************************************************************************)
(* A model of dochelper (src/dochelper/__init__.py): the comment scanner   *)
(* getContiguousComment, the inline markup translator processComment, the  *)
(* definition extractors processPythonFunction / processPythonClass, the   *)
(* module segmenter extractPythonDocumentation and the per-module          *)
(* try/except of main.                                                     *)
(*                                                                         *)
(* A Python str is a sequence of one-character strings; a list of str is a *)
(* sequence of such sequences.  Python's None is the value None.           *)
(***************************************************************************)
EXTENDS Integers, Sequences, FiniteSets, TLC

VARIABLES
    contents,         \* the module's source text handed to extractPythonDocumentation
    contentLines,     \* the logical lines built from it
    processedLines,   \* the cursor into contentLines
    moduleDocstring,  \* the fragments of the module docstring
    constants,        \* name -> comment text
    functions,        \* name -> rendered function entry
    classes,          \* name -> rendered class docstring
    latex,            \* the entries emitted, in order
    pc,               \* position in extractPythonDocumentation / main
    error,            \* the exception raised, or None
    iterations,       \* how many times the body of the while loop has run
    lastBranch,       \* the branch the last iteration of the while loop took
    outputFiles,      \* main: the output files written
    comment,          \* processComment: its argument
    ci,               \* processComment: the loop index i (0-based)
    braces,           \* processComment: the counters per marker
    output,           \* processComment: the output list
    warned,           \* processComment: whether the warning was printed
    cpc,              \* processComment: position
    fparams,          \* the pieces the header handed to processPythonFunction was built from
    fcontents,        \* processPythonFunction: its argument
    fresult,          \* processPythonFunction: what it returned or raised
    fpc               \* processPythonFunction: position

segVars  == <<contents, contentLines, processedLines, moduleDocstring, constants,
              functions, classes, latex, pc, error, iterations, lastBranch, outputFiles>>
comVars  == <<comment, ci, braces, output, warned, cpc>>
funVars  == <<fparams, fcontents, fresult, fpc>>
vars     == <<segVars, comVars, funVars>>

\* None: a value no str equals (every element of a str is one character)
None == <<"None">>

(***************************************************************************)
(* Bounds of the model.                                                    *)
(***************************************************************************)
MaxSegments == 3    \* a module is at most this many source segments
MaxLen      == 4    \* a comment text handed to processComment has at most this many characters
MaxParams   == 2    \* a function header has at most this many comma-separated pieces

(***************************************************************************)
(* Python str and list operations.                                         *)
(***************************************************************************)
\* str.strip() / str.lstrip() / re's \s without argument: whitespace
WS == {" ", "\t", "\n", "\r"}

\* the grave accent character (U+0060), which a TLA+ string cannot hold
Backtick == "GRAVE"

\* the characters the model's inputs use, in code point order
AsciiOrder ==
    <<"\t", "\n", "\r", " ", "!", "\"", "#", "'", "(", ")", "*", ",", "-",
      "0", "1", "2", "3", "4", "5", "6", "7", "8", "9", ":", "=", ">",
      "A", "B", "C", "D", "E", "F", "G", "H", "I", "J", "K", "L", "M",
      "N", "O", "P", "Q", "R", "S", "T", "U", "V", "W", "X", "Y", "Z",
      "\\", "_", Backtick,
      "a", "b", "c", "d", "e", "f", "g", "h", "i", "j", "k", "l", "m",
      "n", "o", "p", "q", "r", "s", "t", "u", "v", "w", "x", "y", "z",
      "{", "}">>

Ord(c) == CHOOSE i \in 1..Len(AsciiOrder) : AsciiOrder[i] = c

Range(s) == {s[i] : i \in 1..Len(s)}

\* s[a:b] with 0-based, non-negative, clipped bounds
Slice(s, a, b) == SubSeq(s, a + 1, IF b > Len(s) THEN Len(s) ELSE b)

\* s[a:]
From(s, a) == SubSeq(s, a + 1, Len(s))

StartsWith(s, p) == Len(s) >= Len(p) /\ SubSeq(s, 1, Len(p)) = p

EndsWith(s, p) == Len(s) >= Len(p) /\ SubSeq(s, Len(s) - Len(p) + 1, Len(s)) = p

\* s.lstrip(chars)
LStrip(s, chars) ==
    LET skip == {i \in 1..Len(s) : \A j \in 1..i : s[j] \in chars}
    IN  SubSeq(s, Cardinality(skip) + 1, Len(s))

\* s.rstrip(chars)
RStrip(s, chars) ==
    LET skip == {i \in 1..Len(s) : \A j \in i..Len(s) : s[j] \in chars}
    IN  SubSeq(s, 1, Len(s) - Cardinality(skip))

\* s.strip()
Strip(s) == RStrip(LStrip(s, WS), WS)

\* s.find(p, start): the 0-based index of the first occurrence of p at or after
\* start, or -1
Find(s, p, start) ==
    LET hits == {i \in start..(Len(s) - Len(p)) : SubSeq(s, i + 1, i + Len(p)) = p}
    IN  IF hits = {} THEN -1 ELSE CHOOSE i \in hits : \A j \in hits : i <= j

\* p in s
Contains(s, p) == Find(s, p, 0) # -1

\* e, with v evaluated before it.  TLC evaluates the arguments of an operator
\* when they are first used, and a loop whose state is handed on unevaluated
\* nests as deep as the loop is long.
Strict(v, e) == IF v = v THEN e ELSE e

\* parts[lo] + ... + parts[hi], by halves
RECURSIVE ConcatRange(_, _, _)
ConcatRange(parts, lo, hi) ==
    IF lo > hi THEN <<>>
    ELSE IF lo = hi THEN parts[lo]
    ELSE ConcatRange(parts, lo, (lo + hi) \div 2) \o ConcatRange(parts, (lo + hi) \div 2 + 1, hi)

\* ''.join(parts): the elements of parts, concatenated
Concat(parts) == ConcatRange(parts, 1, Len(parts))

\* sep.join(parts)
Join(parts, sep) ==
    IF parts = <<>> THEN <<>>
    ELSE Concat([i \in 1..(2 * Len(parts) - 1) |-> IF i % 2 = 1 THEN parts[(i + 1) \div 2] ELSE sep])

\* s.replace(c, r) for a one-character c
Replace(s, c, r) == Concat([i \in 1..Len(s) |-> IF s[i] = c THEN r ELSE <<s[i]>>])

\* s.split(c) for a one-character separator c: the pieces between the
\* occurrences of c
Split(s, c) ==
    LET seps   == {i \in 1..Len(s) : s[i] = c}
        sep(k) == IF k = 0 THEN 0
                  ELSE IF k > Cardinality(seps) THEN Len(s) + 1
                  ELSE CHOOSE i \in seps : Cardinality({j \in seps : j < i}) = k - 1
    IN  [k \in 1..(Cardinality(seps) + 1) |-> SubSeq(s, sep(k - 1) + 1, sep(k) - 1)]

NotEmpty(x) == x # <<>>

\* [x for x in seq if x]
DropEmpty(seq) == SelectSeq(seq, NotEmpty)

\* the order of str under <
RECURSIVE StrLess(_, _)
StrLess(a, b) ==
    IF a = <<>> THEN b # <<>>
    ELSE IF b = <<>> THEN FALSE
    ELSE IF Head(a) = Head(b) THEN StrLess(Tail(a), Tail(b))
    ELSE Ord(Head(a)) < Ord(Head(b))

\* sorted(S) for a set S of str
RECURSIVE Sorted(_)
Sorted(S) ==
    IF S = {} THEN <<>>
    ELSE LET m == CHOOSE x \in S : \A y \in S \ {x} : StrLess(x, y)
         IN  <<m>> \o Sorted(S \ {m})


(***************************************************************************)
(* The syntax tables.                                                      *)
(***************************************************************************)
TripleSingle == <<"'", "'", "'">>
TripleDouble == <<"\"", "\"", "\"">>
Hash         == <<"#">>

\* COMMENT_DELIMS['Python']: a 2-tuple opens and closes a block comment, a
\* 1-tuple opens a line comment
COMMENT_DELIMS == << <<TripleSingle, TripleSingle>>, <<TripleDouble, TripleDouble>>, <<Hash>> >>

Digits     == {AsciiOrder[i] : i \in Ord("0")..Ord("9")}
Letters    == {AsciiOrder[i] : i \in Ord("A")..Ord("Z")} \cup {AsciiOrder[i] : i \in Ord("a")..Ord("z")}
IdentStart == Letters \cup {"_"}
WordChars  == Letters \cup Digits \cup {"_"}

\* ASSIGNMENT_PATTERNS['Python'].match(line): [a-zA-Z_]\w*\s*= at the start of line
ASSIGNMENT_PATTERNS(line) ==
    /\ line # <<>>
    /\ line[1] \in IdentStart
    /\ LET rest == LStrip(LStrip(Tail(line), WordChars), WS)
       IN  rest # <<>> /\ rest[1] = "="

(***************************************************************************)
(* processComment                                                          *)
(***************************************************************************)
sugar ==
    ("_" :> <<"\\", "t", "e", "x", "t", "i", "t", "{">>) @@
    ("*" :> <<"\\", "t", "e", "x", "t", "b", "f", "{">>) @@
    (Backtick :> <<"\\", "c", "o", "d", "e", "{">>)

CloseBrace == <<"}">>

\* the state of processComment before its loop
CommentStart == [braces |-> [c \in DOMAIN sugar |-> 0], output |-> <<>>, warned |-> FALSE]

\* does the loop treat the character at 0-based index i as a toggle
IsToggle(cm, i) == cm[i + 1] \in DOMAIN sugar /\ i # 0 /\ cm[i] # "\\"

\* one pass of the body of the loop, at 0-based index i
CommentStep(st, cm, i) ==
    LET char == cm[i + 1]
    IN  IF IsToggle(cm, i)
        THEN IF st.braces[char] # 0
             THEN [st EXCEPT !.braces[char] = @ - 1, !.output = Append(@, CloseBrace)]
             ELSE [st EXCEPT !.braces[char] = @ + 1, !.output = Append(@, sugar[char])]
        ELSE [st EXCEPT !.output = Append(@, <<char>>)]

SumBraces(b) == b["_"] + b["*"] + b[Backtick]

\* after the loop: forcibly close what is open, and warn
CommentClose(st) ==
    IF \E c \in DOMAIN sugar : st.braces[c] # 0
    THEN [st EXCEPT !.output = @ \o [k \in 1..SumBraces(st.braces) |-> CloseBrace],
                    !.warned = TRUE]
    ELSE st

\* the passes of the loop at the 0-based indices lo..hi, in order, from state
\* st (folded by halves)
RECURSIVE CommentLoop(_, _, _, _)
CommentLoop(st, cm, lo, hi) ==
    IF lo > hi THEN st
    ELSE IF lo = hi THEN CommentStep(st, cm, lo)
    ELSE LET half == CommentLoop(st, cm, lo, (lo + hi) \div 2)
         IN  Strict(half, CommentLoop(half, cm, (lo + hi) \div 2 + 1, hi))

\* processComment(comment): the string returned
processComment(cm) == Concat(CommentClose(CommentLoop(CommentStart, cm, 0, Len(cm) - 1)).output)

(***************************************************************************)
(* getContiguousComment                                                    *)
(***************************************************************************)
StripChars(delim) == {" ", "\t"} \cup Range(delim[1])

\* the line-comment branch: the leading run of lines that start with the marker
LineCommentScan(cts, delim) ==
    LET isComment(i) == StartsWith(LStrip(cts[i], WS), delim[1])
        run == {i \in 1..Len(cts) : \A j \in 1..i : isComment(j)}
    IN  [kind  |-> "list",
         value |-> [i \in 1..Cardinality(run) |-> LStrip(cts[i], StripChars(delim))],
         first |-> cts[1]]

\* the block-comment branch: contents[0] is rewritten, then lines are taken up to
\* the first one that holds the closing marker
BlockCommentScan(cts, delim) ==
    LET chars   == StripChars(delim)
        c2      == [cts EXCEPT ![1] = LStrip(@, chars)]
        closing == {i \in 1..Len(c2) : Contains(c2[i], delim[2])}
    IN  IF closing = {}
        THEN [kind |-> "EOFError", value |-> <<>>, first |-> c2[1]]
        ELSE LET k == CHOOSE i \in closing : \A j \in closing : i <= j
             IN  [kind  |-> "list",
                  value |-> [i \in 1..k |->
                               IF i = k
                               THEN LStrip(Slice(c2[i], 0, Find(c2[i], delim[2], 0)), chars)
                               ELSE LStrip(c2[i], chars)],
                  first |-> c2[1]]

\* [x.replace('_', r'\_') for x in contiguousComment if x]
EscapeFragments(frags) ==
    LET kept == DropEmpty(frags)
    IN  [i \in 1..Len(kept) |-> Replace(kept[i], "_", <<"\\", "_">>)]

\* the delimiter the line at the cursor opens with: the first of COMMENT_DELIMS
\* that matches, or <<>>
OpeningDelim(thisLine) ==
    LET match == {d \in 1..Len(COMMENT_DELIMS) : StartsWith(thisLine, COMMENT_DELIMS[d][1])}
    IN  IF match = {} THEN <<>>
        ELSE COMMENT_DELIMS[CHOOSE x \in match : \A y \in match : x <= y]

\* line 90, when the scan did not raise
Escaped(got) == IF got.kind = "list" THEN [got EXCEPT !.value = EscapeFragments(@)] ELSE got

ScanDelim(cts, delim) ==
    IF delim = <<>> THEN [kind |-> "None", value |-> <<>>, first |-> cts[1]]
    ELSE IF Len(delim) = 1 THEN Escaped(LineCommentScan(cts, delim))
    ELSE Escaped(BlockCommentScan(cts, delim))

\* getContiguousComment('Python', contents).  kind is "list" (value: the
\* fragments), "None", or the exception raised; first is contents[0] as the call
\* leaves it.
getContiguousComment(cts) ==
    IF cts = <<>>
    THEN [kind |-> "IndexError", value |-> <<>>, first |-> None]
    ELSE ScanDelim(cts, OpeningDelim(LStrip(cts[1], WS)))

(***************************************************************************)
(* processPythonFunction and processPythonClass                            *)
(***************************************************************************)
Raised(type, line) == [kind |-> type, line |-> line]

\* identRegex.search(line).start(): where the first opening delimiter (triple
\* double quote, hash, triple single quote) starts, or -1
IdentSearch(line) ==
    LET hits == {Find(line, TripleDouble, 0), Find(line, Hash, 0), Find(line, TripleSingle, 0)} \ {-1}
    IN  IF hits = {} THEN -1 ELSE CHOOSE i \in hits : \A j \in hits : i <= j

\* numLines = 1 + len(docstring), then one more for every following line that
\* starts with the indentation, up to the first that does not
SpanLength(cts, docLen, indentation) ==
    LET start == 1 + docLen
        rest  == From(cts, start)
        run   == {i \in 1..Len(rest) : \A j \in 1..i : StartsWith(rest[j], indentation)}
    IN  start + Cardinality(run)

\* [part.strip() for part in parts if part]
StripNonEmpty(parts) ==
    LET kept == DropEmpty(parts)
    IN  [i \in 1..Len(kept) |-> Strip(kept[i])]

\* line 124: [part.strip() for part in arg.split('=') if part and part.strip()]
DefaultParts(arg) == DropEmpty(StripNonEmpty(Split(arg, "=")))

\* line 125 raises IndexError when parts[1] does not exist
ParseArgRaises(arg) ==
    ~Contains(arg, <<":">>) /\ Contains(arg, <<"=">>) /\ Len(DefaultParts(arg)) < 2

\* the body of the loop over args: the Argument built from one piece
ParseArg(arg) ==
    IF Contains(arg, <<":">>)
    THEN IF Contains(arg, <<"=">>)
         THEN <<Strip(Split(arg, ":")[1])>> \o StripNonEmpty(Split(Split(arg, ":")[2], "="))
         ELSE <<Strip(Split(arg, ":")[1]), Strip(Split(arg, ":")[2]), None>>
    ELSE IF Contains(arg, <<"=">>)
         THEN <<DefaultParts(arg)[1], None, DefaultParts(arg)[2]>>
         ELSE <<arg, None, None>>

\* the pieces of the parameter list: none unless the text from the opening
\* parenthesis to the last closing one holds a comma
SplitArgs(funcname, argsStart, lastClose) ==
    IF Contains(Slice(funcname, argsStart, lastClose), <<",">>)
    THEN LET kept == DropEmpty(Split(Slice(funcname, argsStart + 1, lastClose), ","))
         IN  [i \in 1..Len(kept) |-> Replace(Strip(kept[i]), "_", <<"\\", "_">>)]
    ELSE <<>>

\* the return annotation: searched in funcname as it is after line 110 cut it
\* at the opening parenthesis, from the (negative) index argsEnd
ReturnType(funcname, argsEnd) ==
    LET start == IF Len(funcname) + argsEnd < 0 THEN 0 ELSE Len(funcname) + argsEnd
        at    == Find(funcname, <<"-", ">">>, start)
    IN  IF at = -1 THEN None
        ELSE LET t == Strip(From(funcname, at + 1))
             IN  RStrip(SubSeq(t, 1, Len(t) - 1), WS)

\* lines 142-154: the indentation of the first body line and the span
SpanOf(cts, doc, at) ==
    IF at = -1 THEN Raised("AttributeError", cts[2])
    ELSE [kind      |-> "ok",
          docstring |-> doc.value,
          numLines  |-> SpanLength(cts, Len(doc.value), Slice(cts[2], 0, at))]

\* lines 138-154 given what getContiguousComment(contents[1:]) gave
DocAndSpanOf(cts, doc) ==
    IF doc.kind \notin {"list", "None"} THEN Raised(doc.kind, <<>>)
    ELSE SpanOf(cts, doc, IdentSearch(cts[2]))

\* the docstring and the span of a definition whose header is cts[1]
DocAndSpan(cts) == DocAndSpanOf(cts, getContiguousComment(Tail(cts)))

\* the index of the last closing parenthesis of s, or -1
LastClose(s) ==
    LET closes == {i \in 0..(Len(s) - 1) : s[i + 1] = ")"}
    IN  IF closes = {} THEN -1 ELSE CHOOSE i \in closes : \A j \in closes : j <= i

\* lines 156-173: what is returned, given the docstring and the span
FunctionReturn(funcname, argsEnd, argslist, ds) ==
    IF ds.kind # "ok" THEN ds
    ELSE IF \E i \in 1..Len(argslist) : Len(argslist[i]) < 3
    THEN Raised("IndexError", <<>>)
    ELSE [kind       |-> "ok",
          name       |-> funcname,
          doc        |-> processComment(Join(ds.docstring, <<"\n">>)),
          args       |-> argslist,
          returnType |-> ReturnType(funcname, argsEnd),
          numLines   |-> ds.numLines]

\* lines 110-173, given the pieces of the parameter list
FunctionWithArgs(cts, funcname, argsEnd, args) ==
    IF \E i \in 1..Len(args) : ParseArgRaises(args[i])
    THEN Raised("IndexError", <<>>)
    ELSE FunctionReturn(funcname, argsEnd, [i \in 1..Len(args) |-> ParseArg(args[i])],
                        DocAndSpan(cts))

\* lines 104-173, given the header after the keyword and its parentheses
FunctionHeader(cts, funcname0, argsStart, lastClose) ==
    IF argsStart = -1 \/ lastClose = -1 THEN Raised("ValueError", <<>>)
    ELSE FunctionWithArgs(cts, RStrip(Slice(funcname0, 0, argsStart), WS),
                          lastClose - Len(funcname0),
                          SplitArgs(funcname0, argsStart, lastClose))

\* the header line after its first four characters, without leading whitespace
HeaderText(cts) == LStrip(From(cts[1], 4), WS)

\* processPythonFunction(contents): kind "ok" with what is returned, or the
\* exception raised
processPythonFunction(cts) ==
    FunctionHeader(cts, HeaderText(cts), Find(HeaderText(cts), <<"(">>, 0),
                   LastClose(HeaderText(cts)))

\* lines 190-204, given the docstring and the span
ClassReturn(clsName, ds) ==
    IF ds.kind # "ok" THEN ds
    ELSE [kind     |-> "ok",
          name     |-> clsName,
          doc      |-> processComment(Join(ds.docstring, <<"\n">>)),
          numLines |-> ds.numLines]

\* a processPythonClass that takes a header without "(" as a class without
\* bases instead of raising
ClassHeaderTolerant(cts, clsName0, paren) ==
    ClassReturn(RStrip(Slice(clsName0, 0, IF paren = -1 THEN Len(clsName0) - 1 ELSE paren), WS),
                DocAndSpan(cts))

\* lines 185-204, given the header after the keyword
ClassHeader(cts, clsName0, paren) ==
    IF paren = -1 THEN Raised("ValueError", cts[1])
    ELSE ClassReturn(RStrip(Slice(clsName0, 0, paren), WS), DocAndSpan(cts))

\* processPythonClass(contents)
processPythonClass(cts) ==
    ClassHeader(cts, LStrip(From(cts[1], 6), WS), Find(LStrip(From(cts[1], 6), WS), <<"(">>, 0))

(***************************************************************************)
(* extractPythonDocumentation                                              *)
(***************************************************************************)
NoError == [kind |-> "None", line |-> <<>>]

EmptyMap == <<>>

\* d[key] = value on a dict
Put(d, key, value) == (key :> value) @@ d

\* lines 235-243, the body of the loop over the lines of the text: blank lines
\* are dropped, a line ending in a backslash or a comma is joined with the
\* next, and every logical line is stripped
LineStep(st, line) ==
    IF line # <<>> /\ Strip(line) # <<>>
    THEN IF EndsWith(line, <<"\\">>)
         THEN [st EXCEPT !.currentLine = @ \o <<" ">> \o SubSeq(line, 1, Len(line) - 1)]
         ELSE IF EndsWith(line, <<",">>)
         THEN [st EXCEPT !.currentLine = @ \o <<" ">> \o line]
         ELSE [contentLines |-> Append(st.contentLines, Strip(st.currentLine \o line)),
               currentLine  |-> <<>>]
    ELSE st

\* the passes of that loop over lines[lo..hi], in order (folded by halves)
RECURSIVE LineLoop(_, _, _, _)
LineLoop(st, lines, lo, hi) ==
    IF lo > hi THEN st
    ELSE IF lo = hi THEN LineStep(st, lines[lo])
    ELSE LET half == LineLoop(st, lines, lo, (lo + hi) \div 2)
         IN  Strict(half, LineLoop(half, lines, (lo + hi) \div 2 + 1, hi))

\* lines 232-243: contentLines
SplitLines(lines) == LineLoop([contentLines |-> <<>>, currentLine |-> <<>>], lines, 1, Len(lines)).contentLines

LogicalLines(text) == SplitLines(Split(Strip(text), "\n"))

\* lines 248-249: a leading shebang line is popped; contentLines[0] of an empty
\* list raises IndexError
DropShebang(lines) == IF StartsWith(lines[1], <<"#", "!">>) THEN Tail(lines) ELSE lines

ReadFailed(type, lines) ==
    [pc |-> "failed", error |-> Raised(type, <<>>), contentLines |-> lines,
     processedLines |-> 0, moduleDocstring |-> <<>>, latex |-> <<>>]

\* lines 251-254, given what getContiguousComment(contentLines) gave: the call
\* rewrote contentLines[0], and len(None) raises TypeError
ModuleDoc(lines, doc) ==
    IF doc.kind = "list"
    THEN [pc |-> "scanning", error |-> NoError,
          contentLines    |-> [lines EXCEPT ![1] = doc.first],
          processedLines  |-> Len(doc.value),
          moduleDocstring |-> doc.value,
          latex |-> << [section |-> "module", name |-> <<>>,
                        body |-> processComment(Join(doc.value, <<"\n">>))] >>]
    ELSE ReadFailed(IF doc.kind = "None" THEN "TypeError" ELSE doc.kind, lines)

\* lines 248-254, given the logical lines
ReadLines(lines) ==
    IF lines = <<>> THEN ReadFailed("IndexError", lines)
    ELSE ModuleDoc(DropShebang(lines), getContiguousComment(DropShebang(lines)))

\* lines 232-254, the step before the loop: the state it leaves
ReadModuleResult(text) == ReadLines(LogicalLines(text))

\* the key a constant is recorded under: the text before the first "=", stripped
ConstantName(line) == Strip(Split(line, "=")[1])

\* an advance over a comment without the floor of one line
CommentAdvanceNoFloor(comments) == Len(comments)

\* line 283: len(comments) if comments else 1
CommentAdvance(comments) == IF Len(comments) # 0 THEN Len(comments) ELSE 1

ScanFailed(st, err) == [st EXCEPT !.pc = "failed", !.error = err, !.branch = "raised"]

\* lines 262-266, given what processPythonFunction gave
RecordFunction(st, r) ==
    IF r.kind # "ok" THEN ScanFailed(st, r)
    ELSE [st EXCEPT !.functions = Put(@, r.name, [doc |-> r.doc, args |-> r.args,
                                                 returnType |-> r.returnType]),
                    !.processedLines = @ + r.numLines,
                    !.branch = "function"]

\* lines 268-272, given what processPythonClass gave
RecordClass(st, r) ==
    IF r.kind # "ok" THEN ScanFailed(st, r)
    ELSE [st EXCEPT !.classes = Put(@, r.name, r.doc),
                    !.processedLines = @ + r.numLines,
                    !.branch = "class"]

\* lines 261-277: no comment at the cursor
ScanLine(st, lines, line) ==
    IF StartsWith(line, <<"d", "e", "f">>)
    THEN RecordFunction(st, processPythonFunction(From(lines, st.processedLines)))
    ELSE IF StartsWith(line, <<"c", "l", "a", "s", "s">>)
    THEN RecordClass(st, processPythonClass(From(lines, st.processedLines)))
    ELSE IF ASSIGNMENT_PATTERNS(line)
    THEN [st EXCEPT !.constants = Put(@, ConstantName(line), <<>>),
                    !.processedLines = @ + 1,
                    !.branch = "assignment"]
    ELSE [st EXCEPT !.processedLines = @ + 1, !.branch = "skip"]

\* a pass over a comment that never looks at the line after it
ScanCommentUnattached(st, lines, comments, after) ==
    IF after >= Len(lines) THEN ScanFailed(st, Raised("IndexError", <<>>))
    ELSE [st EXCEPT !.processedLines = @ + CommentAdvance(comments),
                    !.branch = "comment"]

\* lines 278-283: a comment at the cursor; after is the index of the line that
\* follows it
ScanComment(st, lines, comments, after) ==
    IF after >= Len(lines) THEN ScanFailed(st, Raised("IndexError", <<>>))
    ELSE IF ASSIGNMENT_PATTERNS(lines[after + 1])
    THEN [st EXCEPT !.constants = Put(@, ConstantName(lines[after + 1]),
                                      Join(comments, <<"\n">>)),
                    !.processedLines = after + 1,
                    !.branch = "commentAssignment"]
    ELSE [st EXCEPT !.processedLines = @ + CommentAdvance(comments),
                    !.branch = "comment"]

\* lines 259-283, given what getContiguousComment gave at the cursor
ScanWith(st, lines, comments) ==
    IF comments.kind = "None" THEN ScanLine(st, lines, lines[st.processedLines + 1])
    ELSE IF comments.kind = "list"
    THEN ScanComment(st, lines, comments.value, st.processedLines + Len(comments.value))
    ELSE ScanFailed(st, Raised(comments.kind, <<>>))

\* one pass of the body of the while loop (lines 258-283) from state st
ScanResult(st, lines) ==
    ScanWith(st, lines, getContiguousComment(From(lines, st.processedLines)))

\* lines 285-310: one section per non-empty mapping, its entries sorted by name
Section(title, d) ==
    LET names == Sorted(DOMAIN d)
    IN  [i \in 1..Len(names) |->
            [section |-> title, name |-> Replace(names[i], "_", <<"\\", "_">>), body |-> d[names[i]]]]

Render(cs, fs, cl) == Section("Constants", cs) \o Section("Functions", fs) \o Section("Classes", cl)

\* handleFile: the name of the output file of the module
OutputName == <<"m", ".", "p", "y", ".", "t", "e", "x">>

(***************************************************************************)
(* The modules the model reads: up to MaxSegments segments, each one of    *)
(* the source fragments below, in any order.                               *)
(***************************************************************************)
Tab == "\t"

LineShebang    == <<"#", "!", "x">>
LineDocOne     == TripleDouble \o <<"m">> \o TripleDouble
LineText       == <<"t", "e", "x", "t">>
LineComment    == <<"#", " ", "X", " ", "m", "a", "r", "k", "s", " ", "t", "h", "e", " ", "s", "p", "o", "t">>
LineAssign     == <<"X", " ", "=", " ", "1">>
LinePass       == <<"p", "a", "s", "s">>
LineBody       == <<Tab>> \o LinePass
LineDefAlpha   == <<"d", "e", "f", " ", "a", "l", "p", "h", "a", "(", ")", ":">>
LineDefZeta    == <<"d", "e", "f", " ", "z", "e", "t", "a", "(", ")", ":">>
LineDocA       == <<Tab>> \o TripleDouble \o <<"a">> \o TripleDouble
LineDocZ       == <<Tab>> \o TripleDouble \o <<"z">> \o TripleDouble
LineDocK       == <<Tab>> \o TripleDouble \o <<"k">> \o TripleDouble
LineClassBad   == <<"c", "l", "a", "s", "s", " ", "K", ":">>
LineClassGood  == <<"c", "l", "a", "s", "s", " ", "K", "(", "B", ")", ":">>

SegShebang      == <<LineShebang>>
SegDocOne       == <<LineDocOne>>
SegDocBlock     == <<TripleDouble, LineText, TripleDouble>>
SegDocTwo       == <<TripleSingle \o <<" ", "a">>, <<"b", " ">> \o TripleSingle>>
SegLineComment  == <<LineComment>>
SegEmptyComment == <<Hash>>
SegAssign       == <<LineAssign>>
SegSkip         == <<<<>>, LinePass>>
SegAlpha        == <<LineDefAlpha, LineDocA, LineBody>>
SegZeta         == <<LineDefZeta, LineDocZ, LineBody>>
SegClassBad     == <<LineClassBad, LineDocK>>
SegClassGood    == <<LineClassGood, LineDocK>>
SegContinued    == <<<<"Y", " ", "=", " ", "(", "1", ",">>, <<Tab, "2", ")">>>>

SegmentPool ==
    {SegShebang, SegDocOne, SegDocBlock, SegDocTwo, SegLineComment, SegEmptyComment,
     SegAssign, SegSkip, SegAlpha, SegZeta, SegClassBad, SegClassGood, SegContinued}

Flatten(segs) == Concat(segs)

\* the text of a file with these lines
FileText(lines) == Join(lines, <<"\n">>) \o <<"\n">>

Modules == UNION {[1..n -> SegmentPool] : n \in 1..MaxSegments}

(***************************************************************************)
(* The segmenter as a state machine.                                       *)
(***************************************************************************)
ComIdle ==
    /\ comment = <<>>
    /\ ci = 0
    /\ braces = CommentStart.braces
    /\ output = <<>>
    /\ warned = FALSE
    /\ cpc = "idle"

FunIdle == fparams = <<>> /\ fcontents = <<>> /\ fresult = NoError /\ fpc = "idle"

Init ==
    /\ \E m \in Modules : contents = FileText(Flatten(m))
    /\ contentLines = <<>>
    /\ processedLines = 0
    /\ moduleDocstring = <<>>
    /\ constants = EmptyMap
    /\ functions = EmptyMap
    /\ classes = EmptyMap
    /\ latex = <<>>
    /\ pc = "start"
    /\ error = NoError
    /\ iterations = 0
    /\ lastBranch = "none"
    /\ outputFiles = {}
    /\ ComIdle
    /\ FunIdle

\* the segmenter's variables take the values of r
ReadInto(r) ==
    /\ pc' = r.pc
    /\ error' = r.error
    /\ contentLines' = r.contentLines
    /\ processedLines' = r.processedLines
    /\ moduleDocstring' = r.moduleDocstring
    /\ latex' = r.latex

\* lines 232-254: the logical lines, the shebang, the module docstring
ReadModule ==
    /\ pc = "start"
    /\ ReadInto(ReadModuleResult(contents))
    /\ UNCHANGED <<contents, constants, functions, classes, iterations, lastBranch,
                   outputFiles, comVars, funVars>>

\* the loop's variables as a record
LoopState ==
    [pc |-> pc, error |-> error, processedLines |-> processedLines,
     constants |-> constants, functions |-> functions, classes |-> classes,
     branch |-> lastBranch]

\* the loop's variables take the values of r
ScanInto(r) ==
    /\ pc' = r.pc
    /\ error' = r.error
    /\ processedLines' = r.processedLines
    /\ constants' = r.constants
    /\ functions' = r.functions
    /\ classes' = r.classes
    /\ lastBranch' = r.branch

\* lines 257-283: one pass of the while loop
ScanIteration ==
    /\ pc = "scanning"
    /\ processedLines < Len(contentLines)
    /\ ScanInto(ScanResult(LoopState, contentLines))
    /\ iterations' = iterations + 1
    /\ UNCHANGED <<contents, contentLines, moduleDocstring, latex, outputFiles, comVars, funVars>>

\* lines 257, 285-313: the loop ends and the sections are emitted
Finish ==
    /\ pc = "scanning"
    /\ ~(processedLines < Len(contentLines))
    /\ latex' = latex \o Render(constants, functions, classes)
    /\ pc' = "done"
    /\ UNCHANGED <<contents, contentLines, processedLines, moduleDocstring, constants, functions,
                   classes, error, iterations, lastBranch, outputFiles, comVars, funVars>>

\* main, lines 403-407: no exception, the output file is written
MainWrite ==
    /\ pc = "done"
    /\ outputFiles' = outputFiles \cup {OutputName}
    /\ pc' = "written"
    /\ UNCHANGED <<contents, contentLines, processedLines, moduleDocstring, constants, functions,
                   classes, latex, error, iterations, lastBranch, comVars, funVars>>

\* main, lines 399-402: the exception is caught and printed; nothing is written
MainReport ==
    /\ pc = "failed"
    /\ pc' = "reported"
    /\ UNCHANGED <<contents, contentLines, processedLines, moduleDocstring, constants, functions,
                   classes, latex, error, iterations, lastBranch, outputFiles, comVars, funVars>>

Next == ReadModule \/ ScanIteration \/ Finish \/ MainWrite \/ MainReport

Spec == Init /\ [][Next]_vars

(***************************************************************************)
(* processComment as a state machine: one step per pass of its loop, over  *)
(* every text of at most MaxLen characters of CommentAlphabet.             *)
(***************************************************************************)
CommentAlphabet == {"_", "*", Backtick, "\\", "a"}

CommentTexts == UNION {[1..n -> CommentAlphabet] : n \in 0..MaxLen}

SegIdle ==
    /\ contents = <<>>
    /\ contentLines = <<>>
    /\ processedLines = 0
    /\ moduleDocstring = <<>>
    /\ constants = EmptyMap
    /\ functions = EmptyMap
    /\ classes = EmptyMap
    /\ latex = <<>>
    /\ pc = "idle"
    /\ error = NoError
    /\ iterations = 0
    /\ lastBranch = "none"
    /\ outputFiles = {}

InitComment ==
    /\ comment \in CommentTexts
    /\ ci = 0
    /\ braces = CommentStart.braces
    /\ output = CommentStart.output
    /\ warned = CommentStart.warned
    /\ cpc = "loop"
    /\ SegIdle
    /\ FunIdle

\* the comment state as a record
CommentState == [braces |-> braces, output |-> output, warned |-> warned]

CommentInto(st) ==
    /\ braces' = st.braces
    /\ output' = st.output
    /\ warned' = st.warned

\* lines 35-43: one pass of the loop
CommentChar ==
    /\ cpc = "loop"
    /\ ci < Len(comment)
    /\ CommentInto(CommentStep(CommentState, comment, ci))
    /\ ci' = ci + 1
    /\ UNCHANGED <<comment, cpc, segVars, funVars>>

\* lines 45-50: the loop is over; braces left open are closed
CommentReturn ==
    /\ cpc = "loop"
    /\ ~(ci < Len(comment))
    /\ CommentInto(CommentClose(CommentState))
    /\ cpc' = "returned"
    /\ UNCHANGED <<comment, ci, segVars, funVars>>

NextComment == CommentChar \/ CommentReturn

SpecComment == InitComment /\ [][NextComment]_vars

(***************************************************************************)
(* processPythonFunction applied to headers "def f(PIECES)[ -> str]:" of   *)
(* at most MaxParams pieces, followed by a docstring line.                 *)
(***************************************************************************)
TextInt == <<"i", "n", "t">>
TextStr == <<"s", "t", "r">>

\* a piece of a parameter list, and the Argument it denotes
ParamPool ==
    { [text |-> <<"a">>, arg |-> << <<"a">>, None, None >>],
      [text |-> <<"b">>, arg |-> << <<"b">>, None, None >>],
      [text |-> <<"a", ":", " ">> \o TextInt, arg |-> << <<"a">>, TextInt, None >>],
      [text |-> <<"a", " ", "=", " ", "1">>, arg |-> << <<"a">>, None, <<"1">> >>],
      [text |-> <<"a", ":", " ">> \o TextInt \o <<" ", "=", " ", "1">>,
       arg  |-> << <<"a">>, TextInt, <<"1">> >>] }

ParamLists == UNION {[1..n -> ParamPool] : n \in 0..MaxParams}

ReturnMarker == <<"-", ">">>

\* "def f(" PIECES ")" [" -> str"] ":"
HeaderLine(params, annotated) ==
    <<"d", "e", "f", " ", "f", "(">>
        \o Join([i \in 1..Len(params) |-> params[i].text], <<",", " ">>)
        \o <<")">>
        \o (IF annotated THEN <<" ">> \o ReturnMarker \o <<" ">> \o TextStr ELSE <<>>)
        \o <<":">>

InitFunction ==
    /\ fparams \in ParamLists
    /\ \E annotated \in BOOLEAN, body \in {<<>>, <<LinePass>>} :
           fcontents = <<HeaderLine(fparams, annotated), LineDocOne>> \o body
    /\ fresult = NoError
    /\ fpc = "call"
    /\ SegIdle
    /\ ComIdle

\* the call of processPythonFunction, lines 94-173
CallFunction ==
    /\ fpc = "call"
    /\ fresult' = processPythonFunction(fcontents)
    /\ fpc' = "returned"
    /\ UNCHANGED <<fcontents, fparams, segVars, comVars>>

NextFunction == CallFunction

SpecFunction == InitFunction /\ [][NextFunction]_vars

(***************************************************************************)
(* The claims.                                                             *)
(***************************************************************************)
\* the logical lines of the module after the shebang, as the segmenter first
\* sees them
FirstLines == DropShebang(LogicalLines(contents))

ModuleRead == pc \notin {"idle", "start"} /\ LogicalLines(contents) # <<>> /\ FirstLines # <<>>

\* the module opens with a block comment that some line closes: the number of
\* lines up to and including the first line that holds the closing marker
\* (looked for, in the opening line, after the opening marker), or 0
BlockCommentLines(lines) ==
    LET delim   == OpeningDelim(LStrip(lines[1], WS))
        text(i) == IF i = 1 THEN From(LStrip(lines[1], WS), 3) ELSE lines[i]
        closing == IF Len(delim) = 2 THEN {i \in 1..Len(lines) : Contains(text(i), delim[2])} ELSE {}
    IN  IF closing = {} THEN 0 ELSE CHOOSE i \in closing : \A j \in closing : i <= j

\* C1: for a well-formed block comment at the start of the module, the cursor
\* that extractPythonDocumentation advances by the length of the fragment list
\* ends at the line after the one that holds the closing marker.
C1_BlockCommentCursor ==
    (ModuleRead /\ iterations = 0 /\ BlockCommentLines(FirstLines) > 0)
        => (pc = "scanning" /\ processedLines = BlockCommentLines(FirstLines))

\* C2: when the first logical line (after an optional shebang) is not a comment,
\* the module docstring is empty, the cursor stays at that line and the
\* segmenter goes on to Scanning without failure.
C2_NoModuleDocstring ==
    (ModuleRead /\ iterations = 0 /\ OpeningDelim(LStrip(FirstLines[1], WS)) = <<>>)
        => (pc = "scanning" /\ moduleDocstring = <<>> /\ processedLines = 0)

NameAlpha == <<"a", "l", "p", "h", "a">>
NameZeta  == <<"z", "e", "t", "a">>

\* the names of the entries of a section of the output, in the order emitted
Emitted(title) ==
    LET entries == SelectSeq(latex, LAMBDA e : e.section = title)
    IN  [i \in 1..Len(entries) |-> entries[i].name]

\* the modules of the model that hold both sibling functions
SiblingTexts ==
    {FileText(Flatten(m)) : m \in {x \in Modules : SegAlpha \in Range(x) /\ SegZeta \in Range(x)}}

\* C3: a module with the sibling functions alpha and zeta, in either source
\* order, has both recorded and emitted in the order alpha, zeta.
C3_SiblingFunctions ==
    (pc \in {"done", "written"} /\ contents \in SiblingTexts)
        => Emitted("Functions") = <<NameAlpha, NameZeta>>

\* C4: for the header "def f(PARAMS) -> str:" followed by a docstring line the
\* return type is str, and it is absent exactly when the header has no
\* return-annotation marker.
C4_ReturnType ==
    fpc = "returned"
        => /\ fresult.kind = "ok"
           /\ fresult.name = <<"f">>
           /\ fresult.returnType = IF Contains(fcontents[1], ReturnMarker) THEN TextStr ELSE None

\* C5: a parameter list of k comma-separated pieces, k >= 1, gives exactly k
\* Arguments in source order, each (name, type or absent, default or absent);
\* an empty list gives none.
C5_ArgumentPerPiece ==
    fpc = "returned"
        => /\ fresult.kind = "ok"
           /\ fresult.args = [i \in 1..Len(fparams) |-> fparams[i].arg]

NameX       == <<"X">>
CommentText == From(LineComment, 2)

\* C6: a module whose only content is the line comment "# X marks the spot"
\* followed by "X = 1" has constants = {X: "X marks the spot"}.
C6_CommentedConstant ==
    (pc \in {"done", "written"} /\ ModuleRead /\ FirstLines = <<LineComment, LineAssign>>)
        => constants = (NameX :> CommentText)

\* C6, amended: when the comment and the assignment are the module's only
\* content, the comment is taken as the module docstring and X maps to the
\* empty text; X maps to the comment's text when a module docstring (a block
\* comment closed on its last line) precedes the comment.
C6_CommentedConstantAfterDocstring ==
    (pc \in {"done", "written"} /\ ModuleRead)
        => /\ FirstLines = <<LineComment, LineAssign>>
                => (moduleDocstring = <<CommentText>> /\ constants = (NameX :> <<>>))
           /\ \A doc \in {SegDocOne, SegDocTwo} :
                FirstLines = doc \o <<LineComment, LineAssign>>
                    => (Len(moduleDocstring) = Len(doc) /\ constants = (NameX :> CommentText))

C6_Witness ==
    /\ pc = "done"
    /\ ModuleRead
    /\ FirstLines = <<LineDocOne, LineComment, LineAssign>>
    /\ lastBranch = "commentAssignment"
    /\ constants = (NameX :> CommentText)

\* the line at the cursor is a class header without an opening parenthesis
MalformedClassAtCursor ==
    /\ pc = "scanning"
    /\ processedLines < Len(contentLines)
    /\ StartsWith(contentLines[processedLines + 1], <<"c", "l", "a", "s", "s">>)
    /\ "(" \notin Range(contentLines[processedLines + 1])

MalformedClassRaised == error.kind = "ValueError" /\ error.line # <<>>

IsMarker(c) == c \in DOMAIN sugar

\* cm holds an even number of occurrences of the one marker m, none of them
\* preceded by a backslash, and no other marker
WellBalanced(cm, m) ==
    /\ \A i \in 1..Len(cm) : IsMarker(cm[i]) => cm[i] = m
    /\ \A i \in 2..Len(cm) : cm[i] = m => cm[i - 1] # "\\"
    /\ Cardinality({i \in 1..Len(cm) : cm[i] = m}) % 2 = 0

\* the output list with the occurrences of m replaced in strict alternation by
\* the opening markup and the closing brace
Alternating(cm, m) ==
    [i \in 1..Len(cm) |->
        IF cm[i] # m THEN <<cm[i]>>
        ELSE IF Cardinality({j \in 1..i : cm[j] = m}) % 2 = 1 THEN sugar[m] ELSE CloseBrace]

\* C8: n well-balanced occurrences (n even) of one marker, none preceded by a
\* backslash, at any positions including the first character, give n/2
\* opening markups each closed later, in alternation, and no forced closing
\* brace.
C8_BalancedToggles ==
    \A m \in DOMAIN sugar :
        (cpc = "returned" /\ WellBalanced(comment, m))
            => (output = Alternating(comment, m) /\ ~warned)

\* a comment is found at the cursor and the line after it, if any, is not an
\* assignment
OrphanCommentAtCursor ==
    /\ pc = "scanning"
    /\ processedLines < Len(contentLines)
    /\ LET found == getContiguousComment(From(contentLines, processedLines))
           after == processedLines + Len(found.value)
       IN  /\ found.kind = "list"
           /\ after < Len(contentLines) => ~ASSIGNMENT_PATTERNS(contentLines[after + 1])

\* C9: a comment at the cursor whose following line is not an assignment,
\* the comment that ends the module included, moves the cursor past it, adds
\* nothing to constants, functions or classes, and does not fail.
C9_OrphanComment ==
    [][OrphanCommentAtCursor =>
        /\ pc' = "scanning"
        /\ processedLines' > processedLines
        /\ UNCHANGED <<constants, functions, classes>>]_vars

\* C10: every pass of the Scanning loop that does not fail moves the cursor on
\* by at least one line, so the loop ends, in Done with the cursor at or past
\* the number of logical lines or in a failure, after at most as many passes
\* as there are logical lines.
C10_ScanTerminates ==
    /\ [][(pc = "scanning" /\ pc' = "scanning") => processedLines' >= processedLines + 1]_vars
    /\ [](iterations <= Len(contentLines))
    /\ [](pc \in {"done", "written"} => processedLines >= Len(contentLines))

C10_Witness ==
    /\ pc = "done"
    /\ iterations = 3
    /\ lastBranch = "comment"
    /\ contentLines[Len(contentLines)] = Hash
    /\ processedLines = Len(contentLines)

=============================================================================
